---- MODULE Spec2Model ----
(***************************************************************************)
(* Command history engines of the command_history crate.                   *)
(*                                                                         *)
(*   SimpleCommandHistory      src/src/simple_command_history.rs           *)
(*   ConcurrentCommandHistory  src/src/concurrent_command_history.rs       *)
(*                                                                         *)
(* A stack is a sequence whose index 1 is the front of the VecDeque (the   *)
(* most recently inserted command).  A command is its identifier 1, 2, ... *)
(* in order of creation.  The exclusive engine runs each call as one step  *)
(* (its caller holds &mut self); the concurrent engine runs each call as a *)
(* series of steps of the calling thread, one per lock acquisition,        *)
(* callback and locked section.                                            *)
(***************************************************************************)
EXTENDS Integers, Sequences, FiniteSets, TLC

\* Largest history limit given to new / set_history_limit.
MaxLimit == 2
\* Number of commands created over a run.
MaxCmds == 3
\* Longest command vector handed to batch_execute.
MaxBatch == 2
\* Number of threads sharing the concurrent engine.
NThreads == 2
\* Calls made by a thread that races with set_history_limit.
MaxRace == 2

VARIABLES
    engine,                 \* "simple" or "concurrent": which engine was constructed
    serial,                 \* TRUE when the callers issue their calls one at a time
    counting,               \* TRUE when the account of insertions and losses is kept
    undo,                   \* the undo stack, front first
    redo,                   \* the redo stack, front first
    history_limit,          \* the history_limit field
    clear_redo_on_execute,  \* the clear_redo_on_execute field
    ctx,                    \* the context value the commands act on
    nextId,                 \* identifier of the next command to be created
    redo_overridden,        \* TRUE when the command type C overrides redo
    hung,                   \* TRUE once a call of the exclusive engine spins forever
    pc,                     \* concurrent engine: where each thread is in its call
    cmd,                    \* concurrent engine: the command a thread holds (0: none)
    lim,                    \* concurrent engine: the limit a thread has loaded
    todo,                   \* concurrent engine: the rest of a thread's batch
    batch,                  \* concurrent engine: the commands vector of a thread's batch
    plan,                   \* concurrent engine: the calls a thread has still to make
    seen,                   \* concurrent engine: what a planned history call returned
    undoLock,               \* thread holding the undo RwLock for writing (0: free)
    redoLock,               \* thread holding the redo RwLock for writing (0: free)
    last,                   \* record of the latest call (calls issued one at a time)
    pre,                    \* the engine as it was when the latest call was made
    onlyExec,               \* TRUE while every call so far was a completed execute_command
    undone,                 \* commands undone by the current run of undo calls, latest first
    roundTrip,              \* the engine before the undo that the latest call, a redo, follows
    lastSet,                \* the latest set_clear_redo_on_execute call (calls one at a time)
    acct                    \* number of commands inserted, cleared and dropped before any eviction

vars == <<engine, serial, counting, undo, redo, history_limit, clear_redo_on_execute, ctx,
          nextId, redo_overridden, hung, pc, cmd, lim, todo, batch, plan, seen, undoLock,
          redoLock, last, pre, onlyExec, undone, roundTrip, lastSet, acct>>

Threads == 1..NThreads

Min(a, b) == IF a <= b THEN a ELSE b

(***************************************************************************)
(* Commands.  The test commands add their value on execute and subtract it *)
(* on undo; redo defaults to execute unless the command type overrides it. *)
(***************************************************************************)
Value(c) == 2 ^ (c - 1)

\* The method body that runs when the engine invokes method m of command c.
Body(m, ov) == IF m = "redo" /\ ~ov THEN "execute" ELSE m

\* The context after the body has run to completion.
Effect(x, c, body) == IF body = "undo" THEN x - Value(c) ELSE x + Value(c)

\* The context after the engine has invoked method m of command c.
Invoke(x, c, m, ov) == Effect(x, c, Body(m, ov))

(***************************************************************************)
(* VecDeque operations.                                                    *)
(***************************************************************************)
pop_back(s) == IF s = <<>> THEN s ELSE SubSeq(s, 1, Len(s) - 1)

push_front(s, c) == <<c>> \o s

\* while s.len() >= limit { s.pop_back(); }   (limit >= 1: with limit 0 it never exits)
RECURSIVE EvictWhileFull(_, _)
EvictWhileFull(s, limit) ==
    IF Len(s) >= limit THEN EvictWhileFull(pop_back(s), limit) ELSE s

\* while s.len() > limit { s.pop_back(); }
RECURSIVE TrimTo(_, _)
TrimTo(s, limit) ==
    IF Len(s) > limit THEN TrimTo(pop_back(s), limit) ELSE s

\* The snapshot listing the oldest command first.
RECURSIVE Reversed(_)
Reversed(s) == IF s = <<>> THEN s ELSE Append(Reversed(Tail(s)), Head(s))

Snapshot_oldest_first(s) == IF s = <<>> THEN [some |-> FALSE, items |-> <<>>]
                            ELSE [some |-> TRUE, items |-> Reversed(s)]

\* Option<Vec<..>> returned by undo_history / redo_history.
Snapshot(s) == IF s = <<>> THEN [some |-> FALSE, items |-> <<>>]
               ELSE [some |-> TRUE, items |-> s]

NoResult == [some |-> FALSE, items |-> <<>>]

(***************************************************************************)
(* Records of the latest call.                                             *)
(***************************************************************************)
Engine == [undo |-> undo, redo |-> redo, ctx |-> ctx,
           limit |-> history_limit, clear |-> clear_redo_on_execute]

Call(op, args, outcome, calls, result) ==
    [op |-> op, args |-> args, outcome |-> outcome, calls |-> calls, result |-> result]

NoCall == Call("none", <<>>, "returned", <<>>, NoResult)

AllIdle == \A t \in Threads : pc[t] = "idle"

\* The plan of a thread that makes whatever calls it likes.
AnyCall == <<"any">>

\* A plan names each call to make, or "push" for any call that pushes a command.
Fits(entry, op) ==
    entry = op \/ (entry = "push" /\ op \in {"execute_command", "undo", "redo"})

\* The plan of a thread that a panic has ended.
Panicked == <<"panicked">>

\* Every thread has made its calls and has returned from the last.
AllDone == \A t \in Threads : plan[t] = <<>> /\ pc[t] = "idle"

\* No history call has returned to the thread.
NotSeen == [result |-> NoResult, inflight |-> {}]

\* No set_clear_redo_on_execute call was made yet.
NeverSet == [made |-> FALSE, b |-> FALSE]

\* No undo precedes the latest call.
NoRoundTrip ==
    [on |-> FALSE,
     e |-> [undo |-> <<>>, redo |-> <<>>, ctx |-> 0, limit |-> 0, clear |-> FALSE]]

\* The engine before the latest call, when that call was an undo that returned
\* after undoing a command and the call now made is op.
RoundTripAt(op) ==
    IF serial /\ op = "redo" /\ last.op = "undo" /\ last.outcome = "returned"
              /\ pre.undo # <<>>
    THEN [on |-> TRUE, e |-> pre]
    ELSE NoRoundTrip

Range(s) == {s[i] : i \in 1..Len(s)}

\* Nothing inserted yet.
NoAcct == [inserted |-> 0, cleared |-> 0, dropped |-> 0, evicting |-> FALSE]

\* The account is closed by the first capacity eviction.
Closed == [inserted |-> 0, cleared |-> 0, dropped |-> 0, evicting |-> TRUE]

\* The account, where it is kept, after commands ins were
\* pushed by execute_command or batch_execute, ev were popped off the back of a
\* full or over-long stack, cl were discarded by a redo-clear and dr were popped
\* by an undo or redo whose callback panicked.
Accounted(ins, ev, cl, dr) ==
    IF ~counting THEN acct
    ELSE IF acct.evicting \/ ev # {} THEN Closed
    ELSE [inserted |-> acct.inserted + Cardinality(ins),
          cleared |-> acct.cleared + Cardinality(cl),
          dropped |-> acct.dropped + Cardinality(dr), evicting |-> FALSE]

\* The engine is between two calls.
Quiescent == serial /\ AllIdle /\ ~hung

(***************************************************************************)
(* Construction.                                                           *)
(***************************************************************************)
\* SimpleCommandHistory::new(history_limit: usize, clear_redo_on_execute)
Simple_new(limit, clear) ==
    /\ engine = "simple"
    /\ limit \in 0..MaxLimit
    /\ history_limit = limit
    /\ clear_redo_on_execute = clear

\* ConcurrentCommandHistory::new(history_limit: NonZeroUsize, clear_redo_on_execute)
Concurrent_new(limit, clear) ==
    /\ engine = "concurrent"
    /\ limit \in 1..MaxLimit
    /\ history_limit = limit
    /\ clear_redo_on_execute = clear

\* What both constructors leave, and the callers at rest.
Fresh ==
    /\ undo = <<>>
    /\ redo = <<>>
    /\ ctx = 0
    /\ nextId = 1
    /\ redo_overridden \in BOOLEAN
    /\ hung = FALSE
    /\ pc = [t \in Threads |-> "idle"]
    /\ cmd = [t \in Threads |-> 0]
    /\ lim = [t \in Threads |-> 0]
    /\ todo = [t \in Threads |-> <<>>]
    /\ batch = [t \in Threads |-> <<>>]
    /\ undoLock = 0
    /\ lastSet = NeverSet
    /\ seen = [t \in Threads |-> NotSeen]
    /\ redoLock = 0
    /\ last = NoCall
    /\ pre = Engine
    /\ onlyExec = TRUE
    /\ undone = <<>>
    /\ roundTrip = NoRoundTrip
    /\ acct = NoAcct

\* Either engine, its calls issued one at a time.
Init ==
    /\ serial = TRUE
    /\ counting = FALSE
    /\ plan = [t \in Threads |-> AnyCall]
    /\ \E limit \in 0..MaxLimit, clear \in BOOLEAN :
          Simple_new(limit, clear) \/ Concurrent_new(limit, clear)
    /\ Fresh

\* The concurrent engine shared by threads that call it at will.
ConcInit ==
    /\ serial = FALSE
    /\ counting = FALSE
    /\ plan = [t \in Threads |-> AnyCall]
    /\ \E limit \in 1..MaxLimit, clear \in BOOLEAN : Concurrent_new(limit, clear)
    /\ Fresh

\* Either engine, its calls issued one at a time and the account kept.
CountInit ==
    /\ serial = TRUE
    /\ counting = TRUE
    /\ plan = [t \in Threads |-> AnyCall]
    /\ \E limit \in 0..MaxLimit, clear \in BOOLEAN :
          Simple_new(limit, clear) \/ Concurrent_new(limit, clear)
    /\ Fresh

threadVars == <<pc, cmd, lim, todo, batch, plan, seen, undoLock, redoLock>>

(***************************************************************************)
(* SimpleCommandHistory.  A call works on a record of the engine's fields  *)
(* and the context, st, and yields the record it leaves; aborted is set    *)
(* when a callback panicked, hung when a loop never exits.                 *)
(***************************************************************************)
SimpleState ==
    [undo |-> undo, redo |-> redo, ctx |-> ctx, limit |-> history_limit,
     clear |-> clear_redo_on_execute, aborted |-> FALSE, hung |-> FALSE, calls |-> <<>>]

\* push_undo without its eviction loop.
Simple_push_undo_unbounded(st, c) == [st EXCEPT !.undo = push_front(st.undo, c)]

\* fn push_undo: with history_limit = 0 the while loop empties the stack and spins.
Simple_push_undo(st, c) ==
    IF st.limit = 0 THEN [st EXCEPT !.undo = <<>>, !.hung = TRUE]
    ELSE [st EXCEPT !.undo = push_front(EvictWhileFull(st.undo, st.limit), c)]

\* push_redo inserting at the back of the deque.
Simple_push_redo_back(st, c) ==
    IF st.limit = 0 THEN [st EXCEPT !.redo = <<>>, !.hung = TRUE]
    ELSE [st EXCEPT !.redo = Append(EvictWhileFull(st.redo, st.limit), c)]

\* fn push_redo
Simple_push_redo(st, c) ==
    IF st.limit = 0 THEN [st EXCEPT !.redo = <<>>, !.hung = TRUE]
    ELSE [st EXCEPT !.redo = push_front(EvictWhileFull(st.redo, st.limit), c)]

\* A callback of the exclusive engine: command c's method m, which panics when ~ok.
Simple_callback(st, c, m, ok, ov) ==
    IF ok THEN [st EXCEPT !.ctx = Invoke(st.ctx, c, m, ov), !.calls = Append(st.calls, <<m, c>>)]
    ELSE [st EXCEPT !.aborted = TRUE, !.calls = Append(st.calls, <<m, c>>)]

\* The redo stack left alone whatever the flag.
Simple_keep_redo(st) == st

\* The redo stack cleared whatever the flag.
Simple_always_clear_redo(st) == [st EXCEPT !.redo = <<>>]

\* if self.clear_redo_on_execute { self.redo.clear(); }
Simple_clear_redo(st) == IF st.clear THEN [st EXCEPT !.redo = <<>>] ELSE st

\* execute_command pushing the command before it runs it.
Simple_execute_command_push_first(st, c, ok, ov) ==
    LET s1 == Simple_push_undo(st, c)
        s2 == Simple_callback(s1, c, "execute", ok, ov)
    IN  IF s1.hung \/ s2.aborted THEN s2 ELSE Simple_clear_redo(s2)

\* fn execute_command(&mut self, command, ctx)
Simple_execute_command(st, c, ok, ov) ==
    LET s1 == Simple_callback(st, c, "execute", ok, ov)
        s2 == Simple_push_undo(s1, c)
    IN  IF s1.aborted THEN s1
        ELSE IF s2.hung THEN s2
        ELSE Simple_clear_redo(s2)

\* undo resetting the redo stack when it finds nothing to undo.
Simple_undo_resets_redo(st, ok, ov) ==
    IF st.undo = <<>> THEN [st EXCEPT !.redo = <<>>]
    ELSE LET c  == Head(st.undo)
             s1 == Simple_callback([st EXCEPT !.undo = Tail(st.undo)], c, "undo", ok, ov)
         IN  IF s1.aborted THEN s1 ELSE Simple_push_redo(s1, c)

\* fn undo(&mut self, ctx)
Simple_undo(st, ok, ov) ==
    IF st.undo = <<>> THEN st
    ELSE LET c  == Head(st.undo)
             s1 == Simple_callback([st EXCEPT !.undo = Tail(st.undo)], c, "undo", ok, ov)
         IN  IF s1.aborted THEN s1 ELSE Simple_push_redo(s1, c)

\* redo putting the command at the back of the undo stack.
Simple_redo_push_back(st, ok, ov) ==
    IF st.redo = <<>> THEN st
    ELSE LET c  == Head(st.redo)
             s1 == Simple_callback([st EXCEPT !.redo = Tail(st.redo)], c, "execute", ok, ov)
         IN  IF s1.aborted THEN s1 ELSE [s1 EXCEPT !.undo = Append(s1.undo, c)]

\* redo reading the front of the redo stack without popping it.
Simple_redo_keeps_entry(st, ok, ov) ==
    IF st.redo = <<>> THEN st
    ELSE LET c  == Head(st.redo)
             s1 == Simple_callback(st, c, "execute", ok, ov)
         IN  IF s1.aborted THEN s1 ELSE Simple_push_undo(s1, c)

\* fn redo(&mut self, ctx): the popped command is re-run through execute.
Simple_redo(st, ok, ov) ==
    IF st.redo = <<>> THEN st
    ELSE LET c  == Head(st.redo)
             s1 == Simple_callback([st EXCEPT !.redo = Tail(st.redo)], c, "execute", ok, ov)
         IN  IF s1.aborted THEN s1 ELSE Simple_push_undo(s1, c)

\* set_history_limit trimming from the front of the deques.
RECURSIVE TrimFrontTo(_, _)
TrimFrontTo(s, limit) ==
    IF Len(s) > limit THEN TrimFrontTo(Tail(s), limit) ELSE s

Simple_set_history_limit_trim_front(st, limit) ==
    [st EXCEPT !.limit = limit,
               !.undo = TrimFrontTo(st.undo, limit),
               !.redo = TrimFrontTo(st.redo, limit)]

\* fn set_history_limit(&mut self, limit: NonZeroUsize)
Simple_set_history_limit(st, limit) ==
    [st EXCEPT !.limit = limit,
               !.undo = TrimTo(st.undo, limit),
               !.redo = TrimTo(st.redo, limit)]

\* MutableCommandHistory::batch_execute (provided method): execute_command on each
\* command in turn; the command at position failAt (0: none) panics.
RECURSIVE Simple_batch_execute(_, _, _, _)
Simple_batch_execute(st, cmds, failAt, ov) ==
    IF cmds = <<>> \/ st.aborted \/ st.hung THEN st
    ELSE Simple_batch_execute(Simple_execute_command(st, Head(cmds), failAt # 1, ov),
                              Tail(cmds), failAt - 1, ov)

Outcome(st) == IF st.hung THEN "hung" ELSE IF st.aborted THEN "aborted" ELSE "returned"

\* The account after a call op of the exclusive engine that left st: the commands
\* it pushed are those it ran, but for the one whose callback panicked or whose
\* push never ended.
SimpleAccount(st, op) ==
    LET called == {st.calls[i][2] : i \in 1..Len(st.calls)}
        lost   == IF st.aborted \/ st.hung THEN {st.calls[Len(st.calls)][2]} ELSE {}
        isExec == op \in {"execute_command", "batch_execute"}
        ins    == IF isExec THEN called \ lost ELSE {}
        dr     == IF isExec THEN {} ELSE lost
        cl     == IF isExec THEN Range(redo) \ Range(st.redo) ELSE {}
        ev     == ((Range(undo) \cup Range(redo) \cup ins)
                      \ (Range(st.undo) \cup Range(st.redo))) \ (cl \cup dr)
    IN  Accounted(ins, ev, cl, dr)

\* The exclusive engine's fields and the records of the call after a call that left st.
SimpleCommit(st, op, args, result) ==
    /\ undo' = st.undo
    /\ redo' = st.redo
    /\ ctx' = st.ctx
    /\ history_limit' = st.limit
    /\ hung' = st.hung
    /\ last' = Call(op, args, Outcome(st), st.calls, result)
    /\ pre' = Engine
    /\ onlyExec' = (onlyExec /\ op = "execute_command" /\ Outcome(st) = "returned")
    /\ undone' = IF op = "undo" /\ Outcome(st) = "returned"
                 THEN (IF undo = <<>> THEN undone ELSE <<Head(undo)>> \o undone)
                 ELSE <<>>
    /\ roundTrip' = RoundTripAt(op)
    /\ acct' = SimpleAccount(st, op)
    /\ UNCHANGED <<engine, serial, counting, redo_overridden, clear_redo_on_execute,
                   threadVars, lastSet>>

SimpleReady == engine = "simple" /\ ~hung

S_execute_command ==
    /\ SimpleReady
    /\ nextId <= MaxCmds
    /\ \E ok \in BOOLEAN :
          SimpleCommit(Simple_execute_command(SimpleState, nextId, ok, redo_overridden),
                       "execute_command", <<nextId>>, NoResult)
    /\ nextId' = nextId + 1

S_batch_execute ==
    /\ SimpleReady
    /\ \E n \in 0..MaxBatch, failAt \in 0..MaxBatch :
          /\ nextId + n - 1 <= MaxCmds
          /\ failAt <= n
          /\ LET cmds == [i \in 1..n |-> nextId + i - 1] IN
                SimpleCommit(Simple_batch_execute(SimpleState, cmds, failAt, redo_overridden),
                             "batch_execute", cmds, NoResult)
          /\ nextId' = nextId + n

S_undo ==
    /\ SimpleReady
    /\ \E ok \in BOOLEAN :
          /\ (undo = <<>> => ok)
          /\ SimpleCommit(Simple_undo(SimpleState, ok, redo_overridden), "undo", <<>>, NoResult)
    /\ UNCHANGED nextId

S_redo ==
    /\ SimpleReady
    /\ \E ok \in BOOLEAN :
          /\ (redo = <<>> => ok)
          /\ SimpleCommit(Simple_redo(SimpleState, ok, redo_overridden), "redo", <<>>, NoResult)
    /\ UNCHANGED nextId

S_set_history_limit ==
    /\ SimpleReady
    /\ \E limit \in 1..MaxLimit :
          SimpleCommit(Simple_set_history_limit(SimpleState, limit),
                       "set_history_limit", <<limit>>, NoResult)
    /\ UNCHANGED nextId

\* fn undo_history(&self) -> Option<Vec<&C>>
S_undo_history ==
    /\ SimpleReady
    /\ SimpleCommit(SimpleState, "undo_history", <<>>, Snapshot(undo))
    /\ UNCHANGED nextId

\* fn redo_history(&self) -> Option<Vec<&C>>
S_redo_history ==
    /\ SimpleReady
    /\ SimpleCommit(SimpleState, "redo_history", <<>>, Snapshot(redo))
    /\ UNCHANGED nextId

SimpleNext ==
    \/ S_execute_command
    \/ S_batch_execute
    \/ S_undo
    \/ S_redo
    \/ S_set_history_limit
    \/ S_undo_history
    \/ S_redo_history

(***************************************************************************)
(* ConcurrentCommandHistory.  Each thread runs one call at a time; pc[t]   *)
(* names the statement it is about to run.  A write() that finds its lock  *)
(* taken blocks: the step is disabled until the lock is free.  A guard is  *)
(* dropped when its scope ends, also when a panic unwinds through it.      *)
(***************************************************************************)
\* push_undo evicting from the front of the deque.
RECURSIVE EvictFrontWhileFull(_, _)
EvictFrontWhileFull(s, limit) ==
    IF Len(s) >= limit /\ s # <<>> THEN EvictFrontWhileFull(Tail(s), limit) ELSE s

Conc_push_undo_evict_front(s, c, limit) == push_front(EvictFrontWhileFull(s, limit), c)

\* push_undo without its eviction loop.
Conc_push_undo_unbounded(s, c, limit) == push_front(s, c)

\* fn push_undo(&self, command, undo_lock), with the limit the thread has loaded
Conc_push_undo(s, c, limit) == push_front(EvictWhileFull(s, limit), c)

\* push_redo inserting at the back of the deque.
Conc_push_redo_back(s, c, limit) == Append(EvictWhileFull(s, limit), c)

\* fn push_redo(&self, command, redo_lock), with the limit the thread has loaded
Conc_push_redo(s, c, limit) == push_front(EvictWhileFull(s, limit), c)

\* The guards thread t holds.
HoldsUndo(t) == undoLock = t
HoldsRedo(t) == redoLock = t

\* Thread t is blocked in undo.write() / redo.write() / read().
WaitsUndo(t) == pc[t] \in {"exec_lock", "undo_lock", "redo_lock_undo", "shl_undo",
                           "batch_lock", "uh_read"} /\ undoLock # 0
WaitsRedo(t) == pc[t] \in {"exec_clear", "redo_lock", "undo_lock_redo", "shl_redo",
                           "batch_clear", "rh_read"} /\ redoLock # 0

\* Thread t is inside a command callback.
InCallback(t) == pc[t] \in {"exec_cb", "undo_cb", "redo_cb", "batch_cb"}

ConcReady(t) == engine = "concurrent" /\ pc[t] = "idle" /\ (serial => AllIdle)

\* Thread t enters a call.
Begin(t, op, args) ==
    /\ plan[t] = AnyCall \/ (plan[t] # <<>> /\ Fits(Head(plan[t]), op))
    /\ plan' = IF plan[t] = AnyCall THEN plan ELSE [plan EXCEPT ![t] = Tail(@)]
    /\ batch' = [batch EXCEPT ![t] = IF op = "batch_execute" THEN args ELSE <<>>]
    /\ last' = IF serial THEN Call(op, args, "running", <<>>, NoResult) ELSE last
    /\ pre' = IF serial THEN Engine ELSE pre
    /\ roundTrip' = RoundTripAt(op)
    /\ UNCHANGED <<onlyExec, undone, acct, lastSet, seen>>

\* The account after the step thread t takes at pc[t], which ends as outcome says.
Account(t, outcome) ==
    CASE pc[t] \in {"exec_push", "batch_push"} ->
            Accounted({cmd[t]}, (Range(undo) \cup {cmd[t]}) \ Range(undo'), {}, {})
      [] pc[t] = "redo_push" ->
            Accounted({}, (Range(undo) \cup {cmd[t]}) \ Range(undo'), {}, {})
      [] pc[t] = "undo_push" ->
            Accounted({}, (Range(redo) \cup {cmd[t]}) \ Range(redo'), {}, {})
      [] pc[t] = "shl_undo" -> Accounted({}, Range(undo) \ Range(undo'), {}, {})
      [] pc[t] = "shl_redo" -> Accounted({}, Range(redo) \ Range(redo'), {}, {})
      [] pc[t] \in {"exec_clear", "batch_clear"} -> Accounted({}, {}, Range(redo), {})
      [] pc[t] \in {"undo_cb", "redo_cb"} /\ outcome = "aborted" ->
            Accounted({}, {}, {}, {cmd[t]})
      [] OTHER -> acct

\* Thread t goes on inside its call, having invoked the callbacks in newcalls.
Continue(t, newcalls) ==
    /\ last' = IF serial THEN [last EXCEPT !.calls = @ \o newcalls] ELSE last
    /\ acct' = Account(t, "running")
    /\ UNCHANGED <<pre, onlyExec, undone, roundTrip, batch, plan, lastSet, seen>>

\* Thread t holds a command it popped in undo or redo and has not pushed back.
InFlight(t) == pc[t] \in {"undo_cb", "undo_lock_redo", "undo_push",
                          "redo_cb", "redo_lock_undo", "redo_push"}

\* Thread t leaves its call (by return or by unwinding): its guards are dropped.
Return(t, outcome, newcalls, result) ==
    /\ pc' = [pc EXCEPT ![t] = "idle"]
    /\ cmd' = [cmd EXCEPT ![t] = 0]
    /\ lim' = [lim EXCEPT ![t] = 0]
    /\ todo' = [todo EXCEPT ![t] = <<>>]
    /\ batch' = [batch EXCEPT ![t] = <<>>]
    /\ undoLock' = IF undoLock = t THEN 0 ELSE undoLock
    /\ redoLock' = IF redoLock = t THEN 0 ELSE redoLock
    /\ last' = IF serial
               THEN [last EXCEPT !.outcome = outcome, !.calls = @ \o newcalls,
                                 !.result = result]
               ELSE last
    /\ onlyExec' = IF serial
                   THEN onlyExec /\ last.op = "execute_command" /\ outcome = "returned"
                   ELSE onlyExec
    /\ undone' = IF ~serial THEN undone
                 ELSE IF last.op = "undo" /\ outcome = "returned"
                 THEN (IF pre.undo = <<>> THEN undone ELSE <<Head(pre.undo)>> \o undone)
                 ELSE <<>>
    /\ plan' = IF outcome = "aborted" /\ plan[t] # AnyCall
               THEN [plan EXCEPT ![t] = Panicked]
               ELSE plan
    /\ seen' = IF plan[t] # AnyCall /\ pc[t] \in {"uh_read", "rh_read"}
               THEN [seen EXCEPT ![t] =
                        [result   |-> result,
                         inflight |-> {cmd[u] : u \in {v \in Threads : InFlight(v)}}]]
               ELSE seen
    /\ acct' = Account(t, outcome)
    /\ UNCHANGED <<pre, roundTrip, lastSet>>

Goto(t, label) == pc' = [pc EXCEPT ![t] = label]

config == <<engine, serial, counting, redo_overridden, hung>>

\* execute_command taking the undo lock before it runs the command.
C_execute_command_locking(t) ==
    /\ ConcReady(t)
    /\ nextId <= MaxCmds
    /\ undoLock = 0
    /\ undoLock' = t
    /\ nextId' = nextId + 1
    /\ cmd' = [cmd EXCEPT ![t] = nextId]
    /\ Goto(t, "exec_cb")
    /\ Begin(t, "execute_command", <<nextId>>)
    /\ UNCHANGED <<config, undo, redo, history_limit, clear_redo_on_execute, ctx,
                   lim, todo, redoLock>>

\* ---- fn execute_command(&self, command: C, ctx) ----
C_execute_command(t) ==
    /\ ConcReady(t)
    /\ nextId <= MaxCmds
    /\ nextId' = nextId + 1
    /\ cmd' = [cmd EXCEPT ![t] = nextId]
    /\ Goto(t, "exec_cb")
    /\ Begin(t, "execute_command", <<nextId>>)
    /\ UNCHANGED <<config, undo, redo, history_limit, clear_redo_on_execute, ctx,
                   lim, todo, undoLock, redoLock>>

\* command.execute(ctx)
C_exec_callback(t) ==
    /\ pc[t] = "exec_cb"
    /\ \E ok \in BOOLEAN :
          IF ok
          THEN /\ ctx' = Invoke(ctx, cmd[t], "execute", redo_overridden)
               /\ Goto(t, "exec_lock")
               /\ Continue(t, << <<"execute", cmd[t]>> >>)
               /\ UNCHANGED <<cmd, lim, todo, undoLock, redoLock>>
          ELSE /\ Return(t, "aborted", << <<"execute", cmd[t]>> >>, NoResult)
               /\ UNCHANGED ctx
    /\ UNCHANGED <<config, undo, redo, history_limit, clear_redo_on_execute, nextId>>

\* let mut undo = self.undo.write();  and the limit load of push_undo
C_exec_lock(t) ==
    /\ pc[t] = "exec_lock"
    /\ undoLock = 0
    /\ undoLock' = t
    /\ lim' = [lim EXCEPT ![t] = history_limit]
    /\ Goto(t, "exec_push")
    /\ Continue(t, <<>>)
    /\ UNCHANGED <<config, undo, redo, history_limit, clear_redo_on_execute, ctx,
                   nextId, cmd, todo, redoLock>>

\* execute_command replacing the undo stack by the new command.
C_exec_push_replacing(t) ==
    /\ pc[t] = "exec_push"
    /\ undo' = <<cmd[t]>>
    /\ IF clear_redo_on_execute
       THEN /\ Goto(t, "exec_clear")
            /\ Continue(t, <<>>)
            /\ UNCHANGED <<cmd, lim, todo, undoLock, redoLock>>
       ELSE Return(t, "returned", <<>>, NoResult)
    /\ UNCHANGED <<config, redo, history_limit, clear_redo_on_execute, ctx, nextId>>

\* the loop and push_front of push_undo, then the load of clear_redo_on_execute
C_exec_push(t) ==
    /\ pc[t] = "exec_push"
    /\ undo' = Conc_push_undo(undo, cmd[t], lim[t])
    /\ IF clear_redo_on_execute
       THEN /\ Goto(t, "exec_clear")
            /\ Continue(t, <<>>)
            /\ UNCHANGED <<cmd, lim, todo, undoLock, redoLock>>
       ELSE Return(t, "returned", <<>>, NoResult)
    /\ UNCHANGED <<config, redo, history_limit, clear_redo_on_execute, ctx, nextId>>

\* self.redo.write().clear();  with the undo guard still alive
C_exec_clear(t) ==
    /\ pc[t] = "exec_clear"
    /\ redoLock = 0
    /\ redo' = <<>>
    /\ Return(t, "returned", <<>>, NoResult)
    /\ UNCHANGED <<config, undo, history_limit, clear_redo_on_execute, ctx, nextId>>

\* ---- fn undo(&self, ctx) ----
C_undo(t) ==
    /\ ConcReady(t)
    /\ Goto(t, "undo_lock")
    /\ Begin(t, "undo", <<>>)
    /\ UNCHANGED <<config, undo, redo, history_limit, clear_redo_on_execute, ctx,
                   nextId, cmd, lim, todo, undoLock, redoLock>>

\* undo pushing the command onto the redo stack as soon as it has popped it.
C_undo_lock_pushing_first(t) ==
    /\ pc[t] = "undo_lock"
    /\ undoLock = 0
    /\ IF undo = <<>>
       THEN /\ UNCHANGED <<undo, redo>>
            /\ Return(t, "returned", <<>>, NoResult)
       ELSE /\ undoLock' = t
            /\ cmd' = [cmd EXCEPT ![t] = Head(undo)]
            /\ undo' = Tail(undo)
            /\ redo' = push_front(redo, Head(undo))
            /\ Goto(t, "undo_cb")
            /\ Continue(t, <<>>)
            /\ UNCHANGED <<lim, todo, redoLock>>
    /\ UNCHANGED <<config, history_limit, clear_redo_on_execute, ctx, nextId>>

\* let mut undo = self.undo.write();  if let Some(command) = undo.pop_front()
C_undo_lock(t) ==
    /\ pc[t] = "undo_lock"
    /\ undoLock = 0
    /\ IF undo = <<>>
       THEN /\ Return(t, "returned", <<>>, NoResult)
            /\ UNCHANGED undo
       ELSE /\ undoLock' = t
            /\ cmd' = [cmd EXCEPT ![t] = Head(undo)]
            /\ undo' = Tail(undo)
            /\ Goto(t, "undo_cb")
            /\ Continue(t, <<>>)
            /\ UNCHANGED <<lim, todo, redoLock>>
    /\ UNCHANGED <<config, redo, history_limit, clear_redo_on_execute, ctx, nextId>>

\* command.undo(ctx)
C_undo_callback(t) ==
    /\ pc[t] = "undo_cb"
    /\ \E ok \in BOOLEAN :
          IF ok
          THEN /\ ctx' = Invoke(ctx, cmd[t], "undo", redo_overridden)
               /\ Goto(t, "undo_lock_redo")
               /\ Continue(t, << <<"undo", cmd[t]>> >>)
               /\ UNCHANGED <<cmd, lim, todo, undoLock, redoLock>>
          ELSE /\ Return(t, "aborted", << <<"undo", cmd[t]>> >>, NoResult)
               /\ UNCHANGED ctx
    /\ UNCHANGED <<config, undo, redo, history_limit, clear_redo_on_execute, nextId>>

\* let mut redo = self.redo.write();  and the limit load of push_redo
C_undo_lock_redo(t) ==
    /\ pc[t] = "undo_lock_redo"
    /\ redoLock = 0
    /\ redoLock' = t
    /\ lim' = [lim EXCEPT ![t] = history_limit]
    /\ Goto(t, "undo_push")
    /\ Continue(t, <<>>)
    /\ UNCHANGED <<config, undo, redo, history_limit, clear_redo_on_execute, ctx,
                   nextId, cmd, todo, undoLock>>

\* the loop and push_front of push_redo; both guards are dropped on return
C_undo_push(t) ==
    /\ pc[t] = "undo_push"
    /\ redo' = Conc_push_redo(redo, cmd[t], lim[t])
    /\ Return(t, "returned", <<>>, NoResult)
    /\ UNCHANGED <<config, undo, history_limit, clear_redo_on_execute, ctx, nextId>>

\* ---- fn redo(&self, ctx) ----
C_redo(t) ==
    /\ ConcReady(t)
    /\ Goto(t, "redo_lock")
    /\ Begin(t, "redo", <<>>)
    /\ UNCHANGED <<config, undo, redo, history_limit, clear_redo_on_execute, ctx,
                   nextId, cmd, lim, todo, undoLock, redoLock>>

\* let mut redo = self.redo.write();  if let Some(command) = redo.pop_front()
C_redo_lock(t) ==
    /\ pc[t] = "redo_lock"
    /\ redoLock = 0
    /\ IF redo = <<>>
       THEN /\ Return(t, "returned", <<>>, NoResult)
            /\ UNCHANGED redo
       ELSE /\ redoLock' = t
            /\ cmd' = [cmd EXCEPT ![t] = Head(redo)]
            /\ redo' = Tail(redo)
            /\ Goto(t, "redo_cb")
            /\ Continue(t, <<>>)
            /\ UNCHANGED <<lim, todo, undoLock>>
    /\ UNCHANGED <<config, undo, history_limit, clear_redo_on_execute, ctx, nextId>>

\* command.redo(ctx)
C_redo_callback(t) ==
    /\ pc[t] = "redo_cb"
    /\ \E ok \in BOOLEAN :
          IF ok
          THEN /\ ctx' = Invoke(ctx, cmd[t], "redo", redo_overridden)
               /\ Goto(t, "redo_lock_undo")
               /\ Continue(t, << <<"redo", cmd[t]>> >>)
               /\ UNCHANGED <<cmd, lim, todo, undoLock, redoLock>>
          ELSE /\ Return(t, "aborted", << <<"redo", cmd[t]>> >>, NoResult)
               /\ UNCHANGED ctx
    /\ UNCHANGED <<config, undo, redo, history_limit, clear_redo_on_execute, nextId>>

\* let mut undo = self.undo.write();  and the limit load of push_undo
C_redo_lock_undo(t) ==
    /\ pc[t] = "redo_lock_undo"
    /\ undoLock = 0
    /\ undoLock' = t
    /\ lim' = [lim EXCEPT ![t] = history_limit]
    /\ Goto(t, "redo_push")
    /\ Continue(t, <<>>)
    /\ UNCHANGED <<config, undo, redo, history_limit, clear_redo_on_execute, ctx,
                   nextId, cmd, todo, redoLock>>

\* the loop and push_front of push_undo; both guards are dropped on return
C_redo_push(t) ==
    /\ pc[t] = "redo_push"
    /\ undo' = Conc_push_undo(undo, cmd[t], lim[t])
    /\ Return(t, "returned", <<>>, NoResult)
    /\ UNCHANGED <<config, redo, history_limit, clear_redo_on_execute, ctx, nextId>>

\* ---- fn set_history_limit(&self, limit: NonZeroUsize) ----
\* self.history_limit.store(limit, Ordering::Release)
C_set_history_limit(t) ==
    /\ ConcReady(t)
    /\ \E limit \in 1..MaxLimit :
          /\ history_limit' = limit
          /\ lim' = [lim EXCEPT ![t] = limit]
          /\ Begin(t, "set_history_limit", <<limit>>)
    /\ Goto(t, "shl_undo")
    /\ UNCHANGED <<config, undo, redo, clear_redo_on_execute, ctx,
                   nextId, cmd, todo, undoLock, redoLock>>

\* set_history_limit taking the undo lock and leaving the undo stack as it is.
C_shl_trim_undo_skipping(t) ==
    /\ pc[t] = "shl_undo"
    /\ undoLock = 0
    /\ undoLock' = t
    /\ UNCHANGED undo
    /\ Goto(t, "shl_redo")
    /\ Continue(t, <<>>)
    /\ UNCHANGED <<config, redo, history_limit, clear_redo_on_execute, ctx,
                   nextId, cmd, lim, todo, redoLock>>

\* let mut undo = self.undo.write();  while undo.len() > limit { undo.pop_back(); }
C_shl_trim_undo(t) ==
    /\ pc[t] = "shl_undo"
    /\ undoLock = 0
    /\ undoLock' = t
    /\ undo' = TrimTo(undo, lim[t])
    /\ Goto(t, "shl_redo")
    /\ Continue(t, <<>>)
    /\ UNCHANGED <<config, redo, history_limit, clear_redo_on_execute, ctx,
                   nextId, cmd, lim, todo, redoLock>>

\* let mut redo = self.redo.write();  while redo.len() > limit { redo.pop_back(); }
C_shl_trim_redo(t) ==
    /\ pc[t] = "shl_redo"
    /\ redoLock = 0
    /\ redo' = TrimTo(redo, lim[t])
    /\ Return(t, "returned", <<>>, NoResult)
    /\ UNCHANGED <<config, undo, history_limit, clear_redo_on_execute, ctx, nextId>>

\* ---- fn batch_execute(&self, commands: Vec<C>, ctx) ----
C_batch_execute(t) ==
    /\ ConcReady(t)
    /\ \E n \in 0..MaxBatch :
          /\ nextId + n - 1 <= MaxCmds
          /\ nextId' = nextId + n
          /\ todo' = [todo EXCEPT ![t] = [i \in 1..n |-> nextId + i - 1]]
          /\ Begin(t, "batch_execute", [i \in 1..n |-> nextId + i - 1])
    /\ Goto(t, "batch_lock")
    /\ UNCHANGED <<config, undo, redo, history_limit, clear_redo_on_execute, ctx,
                   cmd, lim, undoLock, redoLock>>

\* let mut undo = self.undo.write();
C_batch_lock(t) ==
    /\ pc[t] = "batch_lock"
    /\ undoLock = 0
    /\ undoLock' = t
    /\ Goto(t, "batch_cb")
    /\ Continue(t, <<>>)
    /\ UNCHANGED <<config, undo, redo, history_limit, clear_redo_on_execute, ctx,
                   nextId, cmd, lim, todo, redoLock>>

\* batch_execute pushing a command although its execute callback panicked.
C_batch_callback_push_on_abort(t) ==
    /\ pc[t] = "batch_cb"
    /\ todo[t] # <<>>
    /\ \E ok \in BOOLEAN :
          IF ok
          THEN /\ ctx' = Invoke(ctx, Head(todo[t]), "execute", redo_overridden)
               /\ cmd' = [cmd EXCEPT ![t] = Head(todo[t])]
               /\ todo' = [todo EXCEPT ![t] = Tail(todo[t])]
               /\ lim' = [lim EXCEPT ![t] = history_limit]
               /\ Goto(t, "batch_push")
               /\ Continue(t, << <<"execute", Head(todo[t])>> >>)
               /\ UNCHANGED <<undo, undoLock, redoLock>>
          ELSE /\ Return(t, "aborted", << <<"execute", Head(todo[t])>> >>, NoResult)
               /\ undo' = push_front(undo, Head(todo[t]))
               /\ UNCHANGED ctx
    /\ UNCHANGED <<config, redo, history_limit, clear_redo_on_execute, nextId>>

\* for command in commands: command.execute(ctx), then the limit load of push_undo
C_batch_callback(t) ==
    /\ pc[t] = "batch_cb"
    /\ todo[t] # <<>>
    /\ \E ok \in BOOLEAN :
          IF ok
          THEN /\ ctx' = Invoke(ctx, Head(todo[t]), "execute", redo_overridden)
               /\ cmd' = [cmd EXCEPT ![t] = Head(todo[t])]
               /\ todo' = [todo EXCEPT ![t] = Tail(todo[t])]
               /\ lim' = [lim EXCEPT ![t] = history_limit]
               /\ Goto(t, "batch_push")
               /\ Continue(t, << <<"execute", Head(todo[t])>> >>)
               /\ UNCHANGED <<undoLock, redoLock>>
          ELSE /\ Return(t, "aborted", << <<"execute", Head(todo[t])>> >>, NoResult)
               /\ UNCHANGED ctx
    /\ UNCHANGED <<config, undo, redo, history_limit, clear_redo_on_execute, nextId>>

\* batch_execute taking the undo lock anew for every push.
C_batch_push_unlocking(t) ==
    /\ pc[t] = "batch_push"
    /\ undo' = Conc_push_undo(undo, cmd[t], lim[t])
    /\ cmd' = [cmd EXCEPT ![t] = 0]
    /\ undoLock' = 0
    /\ Goto(t, "batch_cb")
    /\ Continue(t, <<>>)
    /\ UNCHANGED <<config, redo, history_limit, clear_redo_on_execute, ctx,
                   nextId, lim, todo, redoLock>>

\* the loop and push_front of push_undo
C_batch_push(t) ==
    /\ pc[t] = "batch_push"
    /\ undo' = Conc_push_undo(undo, cmd[t], lim[t])
    /\ cmd' = [cmd EXCEPT ![t] = 0]
    /\ Goto(t, "batch_cb")
    /\ Continue(t, <<>>)
    /\ UNCHANGED <<config, redo, history_limit, clear_redo_on_execute, ctx,
                   nextId, lim, todo, undoLock, redoLock>>

\* after the loop: if self.clear_redo_on_execute.load(Ordering::Relaxed)
C_batch_finish(t) ==
    /\ pc[t] = "batch_cb"
    /\ todo[t] = <<>>
    /\ IF clear_redo_on_execute
       THEN /\ Goto(t, "batch_clear")
            /\ Continue(t, <<>>)
            /\ UNCHANGED <<cmd, lim, todo, undoLock, redoLock>>
       ELSE Return(t, "returned", <<>>, NoResult)
    /\ UNCHANGED <<config, undo, redo, history_limit, clear_redo_on_execute, ctx, nextId>>

\* self.redo.write().clear();  with the undo guard still alive
C_batch_clear(t) ==
    /\ pc[t] = "batch_clear"
    /\ redoLock = 0
    /\ redo' = <<>>
    /\ Return(t, "returned", <<>>, NoResult)
    /\ UNCHANGED <<config, undo, history_limit, clear_redo_on_execute, ctx, nextId>>

\* ---- pub fn undo_history(&self) -> Option<Vec<Arc<C>>> ----
C_undo_history(t) ==
    /\ ConcReady(t)
    /\ Goto(t, "uh_read")
    /\ Begin(t, "undo_history", <<>>)
    /\ UNCHANGED <<config, undo, redo, history_limit, clear_redo_on_execute, ctx,
                   nextId, cmd, lim, todo, undoLock, redoLock>>

\* let undo_lock = self.undo.read();  and the snapshot
C_uh_read(t) ==
    /\ pc[t] = "uh_read"
    /\ undoLock = 0
    /\ Return(t, "returned", <<>>, Snapshot(undo))
    /\ UNCHANGED <<config, undo, redo, history_limit, clear_redo_on_execute, ctx, nextId>>

\* ---- pub fn redo_history(&self) -> Option<Vec<Arc<C>>> ----
C_redo_history(t) ==
    /\ ConcReady(t)
    /\ Goto(t, "rh_read")
    /\ Begin(t, "redo_history", <<>>)
    /\ UNCHANGED <<config, undo, redo, history_limit, clear_redo_on_execute, ctx,
                   nextId, cmd, lim, todo, undoLock, redoLock>>

\* let redo_lock = self.redo.read();  and the snapshot
C_rh_read(t) ==
    /\ pc[t] = "rh_read"
    /\ redoLock = 0
    /\ Return(t, "returned", <<>>, Snapshot(redo))
    /\ UNCHANGED <<config, undo, redo, history_limit, clear_redo_on_execute, ctx, nextId>>

\* set_clear_redo_on_execute that does not store the flag.
C_set_clear_redo_on_execute_ignored(t) ==
    /\ ConcReady(t)
    /\ plan[t] = AnyCall
    /\ \E clear \in BOOLEAN :
          /\ lastSet' = IF serial /\ ~counting THEN [made |-> TRUE, b |-> clear]
                        ELSE lastSet
          /\ last' = IF serial
                     THEN Call("set_clear_redo_on_execute", <<clear>>, "returned",
                               <<>>, NoResult)
                     ELSE last
    /\ pre' = IF serial THEN Engine ELSE pre
    /\ onlyExec' = IF serial THEN FALSE ELSE onlyExec
    /\ undone' = IF serial THEN <<>> ELSE undone
    /\ roundTrip' = NoRoundTrip
    /\ UNCHANGED <<config, undo, redo, history_limit, ctx, nextId,
                   threadVars, acct, clear_redo_on_execute>>

\* ---- pub fn set_clear_redo_on_execute(&self, clear: bool) ----
C_set_clear_redo_on_execute(t) ==
    /\ ConcReady(t)
    /\ plan[t] = AnyCall
    /\ \E clear \in BOOLEAN :
          /\ clear_redo_on_execute' = clear
          /\ lastSet' = IF serial /\ ~counting THEN [made |-> TRUE, b |-> clear]
                        ELSE lastSet
          /\ last' = IF serial
                     THEN Call("set_clear_redo_on_execute", <<clear>>, "returned",
                               <<>>, NoResult)
                     ELSE last
    /\ pre' = IF serial THEN Engine ELSE pre
    /\ onlyExec' = IF serial THEN FALSE ELSE onlyExec
    /\ undone' = IF serial THEN <<>> ELSE undone
    /\ roundTrip' = NoRoundTrip
    /\ UNCHANGED <<config, undo, redo, history_limit, ctx, nextId,
                   threadVars, acct>>

ConcNext ==
    \E t \in Threads :
        \/ C_execute_command(t) \/ C_exec_callback(t) \/ C_exec_lock(t)
        \/ C_exec_push(t) \/ C_exec_clear(t)
        \/ C_undo(t) \/ C_undo_lock(t) \/ C_undo_callback(t)
        \/ C_undo_lock_redo(t) \/ C_undo_push(t)
        \/ C_redo(t) \/ C_redo_lock(t) \/ C_redo_callback(t)
        \/ C_redo_lock_undo(t) \/ C_redo_push(t)
        \/ C_set_history_limit(t) \/ C_shl_trim_undo(t) \/ C_shl_trim_redo(t)
        \/ C_batch_execute(t) \/ C_batch_lock(t) \/ C_batch_callback(t)
        \/ C_batch_push(t) \/ C_batch_finish(t) \/ C_batch_clear(t)
        \/ C_undo_history(t) \/ C_uh_read(t)
        \/ C_redo_history(t) \/ C_rh_read(t)
        \/ C_set_clear_redo_on_execute(t)

Next == SimpleNext \/ ConcNext

Spec == Init /\ [][Next]_vars

ConcSpec == ConcInit /\ [][ConcNext]_vars

CountSpec == CountInit /\ [][Next]_vars

(***************************************************************************)
(* Properties.  The calls are issued one at a time under Spec; last is the *)
(* latest call and pre the engine when it was made.                        *)
(***************************************************************************)
Returned(ops) == Quiescent /\ last.op \in ops /\ last.outcome = "returned"

Aborted(ops) == serial /\ AllIdle /\ last.op \in ops /\ last.outcome = "aborted"

\* The k most recently created commands, the latest first.
Latest(k) == [i \in 1..k |-> nextId - i]

\* C1: between two calls of either engine, the undo stack and the redo stack are
\* each no longer than the history limit.
CapacityInvariant ==
    Quiescent => Len(undo) <= history_limit /\ Len(redo) <= history_limit

\* An execute_command that found the undo stack full has returned, the redo stack full too.
CapacityWitness ==
    /\ Returned({"execute_command"})
    /\ Len(pre.undo) = pre.limit
    /\ Len(undo) = history_limit
    /\ Len(redo) = history_limit

\* C2: no two threads each hold one of the two stack locks while waiting for the
\* other's.
NoLockCycle ==
    \A t, u \in Threads :
        ~(HoldsUndo(t) /\ WaitsRedo(t) /\ HoldsRedo(u) /\ WaitsUndo(u))

\* C3: after k execute_command calls on a fresh engine of limit N >= 1, and nothing
\* else, the undo stack is the last min(k, N) commands executed, the latest first.
EvictionOrder ==
    (Quiescent /\ onlyExec) => undo = Latest(Min(nextId - 1, history_limit))

\* More commands were executed than the limit allows to keep.
EvictionOrderWitness ==
    /\ Quiescent /\ onlyExec
    /\ nextId - 1 > history_limit
    /\ history_limit >= 2
    /\ engine = "concurrent"

\* C4: an undo() or redo() whose callback aborted leaves both stacks as they were
\* before the call.
UndoRedoAbortKeepsHistory ==
    Aborted({"undo", "redo"}) => undo = pre.undo /\ redo = pre.redo

\* C5: an execute_command whose execute callback aborted leaves both stacks as they
\* were before the call.
ExecuteAbortKeepsHistory ==
    Aborted({"execute_command"}) => undo = pre.undo /\ redo = pre.redo

\* The aborted execute_command found a full undo stack, a redo stack and the flag set.
ExecuteAbortWitness ==
    /\ Aborted({"execute_command"})
    /\ pre.clear
    /\ pre.redo # <<>>
    /\ Len(pre.undo) = pre.limit

\* C6: no thread is inside the callback of undo() or redo() while it holds the undo
\* lock or the redo lock.
UndoRedoCallbackOutsideLocks ==
    \A t \in Threads :
        pc[t] \in {"undo_cb", "redo_cb"} => ~HoldsUndo(t) /\ ~HoldsRedo(t)

\* C7 as stated: with the flag set, every execute_command and every batch_execute
\* that returns leaves the redo stack empty.
ExecuteClearsRedo ==
    (Returned({"execute_command", "batch_execute"}) /\ pre.clear) => redo = <<>>

\* C7 as amended: with the flag set, every execute_command and every batch_execute of
\* at least one command that returns leaves the redo stack empty.
NonEmptyExecuteClearsRedo ==
    (Returned({"execute_command", "batch_execute"}) /\ pre.clear /\ last.args # <<>>)
        => redo = <<>>

\* A batch of two commands has returned, the flag set and the redo stack not empty before.
NonEmptyExecuteClearsRedoWitness ==
    /\ Returned({"batch_execute"})
    /\ pre.clear
    /\ pre.redo # <<>>
    /\ Len(last.args) = 2

\* C8: with the flag unset, an execute_command or batch_execute that returns leaves
\* the redo stack as it was; an execute_command on an undo stack below the limit
\* makes it one longer.
ExecuteKeepsRedo ==
    (Returned({"execute_command", "batch_execute"}) /\ ~pre.clear)
        => /\ redo = pre.redo
           /\ (last.op = "execute_command" /\ Len(pre.undo) < pre.limit)
                 => Len(undo) = Len(pre.undo) + 1

\* Executes, two undos, then one more execute: the two redo entries are still there.
ExecuteKeepsRedoWitness ==
    /\ Returned({"execute_command"})
    /\ ~pre.clear
    /\ Len(pre.redo) = 2
    /\ Len(redo) = 2
    /\ Len(undo) = Len(pre.undo) + 1

\* C9: a redo() that found a command on the redo stack invoked that command's redo
\* method once, and nothing else, and moved it to the front of the undo stack.
RedoInvokesRedo ==
    (Returned({"redo"}) /\ pre.redo # <<>>)
        => /\ last.calls = << <<"redo", Head(pre.redo)>> >>
           /\ redo = Tail(pre.redo)
           /\ undo # <<>> /\ Head(undo) = Head(pre.redo)

\* C10: an undo() that returns moves the front of the undo stack to the front of the
\* redo stack; after a run of k <= limit undo() calls the redo stack starts with the
\* k commands undone, the latest undone first.
UndoMovesFront ==
    (Returned({"undo"}) /\ pre.undo # <<>>)
        => /\ undo = Tail(pre.undo)
           /\ redo = <<Head(pre.undo)>>
                       \o SubSeq(pre.redo, 1, Min(Len(pre.redo), history_limit - 1))
           /\ undone # <<>> /\ Head(undone) = Head(pre.undo)
           /\ Len(undone) <= history_limit
                 => SubSeq(redo, 1, Len(undone)) = undone

\* Limit 2, execute A, B, C, then undo twice: the redo stack is [B, C].
UndoMovesFrontWitness ==
    /\ Returned({"undo"})
    /\ history_limit = 2
    /\ nextId = 4
    /\ undone = <<2, 3>>
    /\ redo = <<2, 3>>
    /\ undo = <<>>

\* C11: set_history_limit(n) leaves each stack the first min(len, n) entries it held,
\* in the same order, and leaves it alone when n is at least its length.
SetLimitTrimsOldest ==
    Returned({"set_history_limit"})
        => LET n == last.args[1] IN
           /\ history_limit = n
           /\ undo = SubSeq(pre.undo, 1, Min(Len(pre.undo), n))
           /\ redo = SubSeq(pre.redo, 1, Min(Len(pre.redo), n))
           /\ (n >= Len(pre.undo) /\ n >= Len(pre.redo))
                 => undo = pre.undo /\ redo = pre.redo

\* The limit went from 2 to 1 with two commands on the undo stack, one on the redo stack.
SetLimitTrimsOldestWitness ==
    /\ Returned({"set_history_limit"})
    /\ last.args = <<1>>
    /\ Len(pre.undo) = 2 /\ Len(pre.redo) = 1
    /\ undo = <<Head(pre.undo)>>
    /\ redo = pre.redo

\* C12: the history limit is a positive integer in every state of either engine, the
\* state right after construction included.
LimitPositive == history_limit >= 1

\* C13: undo() on an empty undo stack and redo() on an empty redo stack invoke no
\* callback and leave the context, both stacks, the limit and the flag as they were.
EmptyUndoRedoNoOp ==
    /\ (serial /\ AllIdle /\ last.op = "undo" /\ pre.undo = <<>>)
          => last.outcome = "returned" /\ last.calls = <<>> /\ Engine = pre
    /\ (serial /\ AllIdle /\ last.op = "redo" /\ pre.redo = <<>>)
          => last.outcome = "returned" /\ last.calls = <<>> /\ Engine = pre

\* undo() found the undo stack empty and the redo stack not.
EmptyUndoRedoNoOpWitness ==
    /\ Returned({"undo"})
    /\ pre.undo = <<>>
    /\ Len(pre.redo) = 2
    /\ pre.ctx = 0

\* C14: batch_execute of an empty vector leaves the undo stack, the redo stack and the
\* context as they were, on both engines.
EmptyBatchNoOp ==
    (serial /\ AllIdle /\ last.op = "batch_execute" /\ last.args = <<>>)
        => undo = pre.undo /\ redo = pre.redo /\ ctx = pre.ctx

\* C17: undo_history() / redo_history() return None exactly when their stack is
\* empty, otherwise all its commands from the front to the back, and change no stack.
SnapshotListsStack ==
    /\ Returned({"undo_history"})
          => /\ last.result.some <=> undo # <<>>
             /\ last.result.items = undo
             /\ undo = pre.undo /\ redo = pre.redo
    /\ Returned({"redo_history"})
          => /\ last.result.some <=> redo # <<>>
             /\ last.result.items = redo
             /\ undo = pre.undo /\ redo = pre.redo

\* redo_history() returned two commands of the concurrent engine, undo_history() None.
SnapshotListsStackWitness ==
    /\ Returned({"redo_history"})
    /\ engine = "concurrent"
    /\ last.result = [some |-> TRUE, items |-> redo]
    /\ Len(redo) = 2
    /\ undo = <<>>

\* What execute_command(c) leaves of engine e when it runs alone and c.execute returns.
Simple_executed(e, c, ov) ==
    LET st == Simple_execute_command(
                  [undo |-> e.undo, redo |-> e.redo, ctx |-> e.ctx, limit |-> e.limit,
                   clear |-> e.clear, aborted |-> FALSE, hung |-> FALSE, calls |-> <<>>],
                  c, TRUE, ov)
    IN  [undo |-> st.undo, redo |-> st.redo, ctx |-> st.ctx,
         limit |-> st.limit, clear |-> st.clear]

Conc_executed(e, c, ov) ==
    [e EXCEPT !.ctx = Invoke(e.ctx, c, "execute", ov),
              !.undo = Conc_push_undo(e.undo, c, e.limit),
              !.redo = IF e.clear THEN <<>> ELSE e.redo]

\* execute_command(c1); ...; execute_command(ck) on engine e.
RECURSIVE ExecutedInTurn(_, _, _, _)
ExecutedInTurn(eng, e, cmds, ov) ==
    IF cmds = <<>> THEN e
    ELSE ExecutedInTurn(eng,
                        IF eng = "simple" THEN Simple_executed(e, Head(cmds), ov)
                        ELSE Conc_executed(e, Head(cmds), ov),
                        Tail(cmds), ov)

\* C16: a batch_execute that returns has executed its commands in the given order and
\* leaves the context and both stacks as execute_command on each command in turn would;
\* the undo stack is the last min(k + old length, limit) entries, the latest first.
BatchEqualsSequence ==
    Returned({"batch_execute"})
        => /\ last.calls = [i \in 1..Len(last.args) |-> <<"execute", last.args[i]>>]
           /\ Engine = ExecutedInTurn(engine, pre, last.args, redo_overridden)
           /\ undo = SubSeq(Reversed(last.args) \o pre.undo, 1,
                            Min(Len(last.args) + Len(pre.undo), history_limit))

\* The same for the batches of at least one command.
NonEmptyBatchEqualsSequence ==
    last.args # <<>> => BatchEqualsSequence

\* execute_command alone leaves what Conc_executed / Simple_executed say.
ExecutedAlone ==
    Returned({"execute_command"})
        => Engine = ExecutedInTurn(engine, pre, last.args, redo_overridden)

\* Thread t is inside batch_execute with the undo lock taken.
InBatch(t) == pc[t] \in {"batch_cb", "batch_push", "batch_clear"}

\* The commands thread t's batch has pushed so far, in batch order.
Pushed(t) ==
    SubSeq(batch[t], 1,
           Len(batch[t]) - Len(todo[t]) - (IF pc[t] = "batch_push" THEN 1 ELSE 0))

\* C15: while a thread is inside batch_execute, the commands of its batch that are
\* in the undo stack are the front entries of the stack, latest pushed first,
\* with no other thread's command between or above them.
BatchContiguous ==
    \A t \in Threads :
        InBatch(t) =>
            LET p == Pushed(t)
                k == Min(Len(p), Len(undo))
            IN  /\ HoldsUndo(t)
                /\ \A i \in 1..k : undo[i] = p[Len(p) - i + 1]
                /\ \A i \in 1..Len(undo) : undo[i] \in Range(p) => i <= k

BatchContiguousWitness ==
    \E t, u \in Threads :
        /\ pc[t] = "batch_cb" /\ todo[t] = <<>> /\ Len(batch[t]) = 2
        /\ undo = <<batch[t][2], batch[t][1]>>
        /\ pc[u] = "exec_lock" /\ cmd[u] # 0

\* C18 as stated: an undo that undid a command, immediately followed by a redo,
\* leaves the context value and both stacks as they were before the undo.
RoundTripRestores ==
    (Returned({"redo"}) /\ roundTrip.on)
        => /\ ctx = roundTrip.e.ctx
           /\ undo = roundTrip.e.undo
           /\ redo = roundTrip.e.redo

\* C18: an undo that undid a command while the redo stack held fewer entries than
\* the history limit, immediately followed by a redo, leaves the context value and
\* both stacks as they were before the undo.
RoundTripRestoresWithRoom ==
    (Returned({"redo"}) /\ roundTrip.on /\ Len(roundTrip.e.redo) < roundTrip.e.limit)
        => /\ ctx = roundTrip.e.ctx
           /\ undo = roundTrip.e.undo
           /\ redo = roundTrip.e.redo

RoundTripRestoresWithRoomWitness ==
    /\ Returned({"redo"}) /\ roundTrip.on
    /\ Len(roundTrip.e.undo) = 2 /\ Len(roundTrip.e.redo) = 1
    /\ Len(last.calls) = 1
    /\ Engine = roundTrip.e

\* C19 as stated: while no capacity eviction has occurred, the two stacks together
\* hold as many commands as execute_command and batch_execute have inserted.
ConservationCount ==
    (Quiescent /\ counting /\ ~acct.evicting)
        => Len(undo) + Len(redo) = acct.inserted

\* C19: while no capacity eviction has occurred, the two stacks together hold as
\* many commands as execute_command and batch_execute have inserted, less those
\* discarded by a redo-clear and those popped by an undo or redo whose callback
\* panicked.
ConservationNet ==
    (Quiescent /\ counting /\ ~acct.evicting)
        => Len(undo) + Len(redo) = acct.inserted - acct.cleared - acct.dropped

ConservationNetWitness ==
    /\ Quiescent /\ counting /\ ~acct.evicting
    /\ acct.inserted = 3 /\ acct.cleared = 1 /\ acct.dropped = 1
    /\ Len(undo) = 1 /\ redo = <<>>

\* The commands the engine holds: in a stack or in flight.
InEngine == Range(undo) \cup Range(redo) \cup {cmd[t] : t \in {u \in Threads : InFlight(u)}}

\* Every command the engine holds is in one place only.
NoDup ==
    /\ \A i, j \in 1..Len(undo \o redo) : i # j => (undo \o redo)[i] # (undo \o redo)[j]
    /\ \A t \in Threads : InFlight(t) => cmd[t] \notin Range(undo) \cup Range(redo)
    /\ \A t, u \in Threads : (InFlight(t) /\ InFlight(u) /\ t # u) => cmd[t] # cmd[u]

\* The step is a push that evicts, a trim of set_history_limit or a redo-clear.
Removal ==
    \E t \in Threads :
        /\ pc'[t] # pc[t]
        /\ pc[t] \in {"exec_push", "batch_push", "redo_push", "undo_push",
                      "shl_undo", "shl_redo", "exec_clear", "batch_clear"}

\* C20: in every interleaving each command is in at most one place (once in one
\* stack or in flight in one undo/redo call), and a command leaves the engine
\* only in a step that evicts at capacity, trims to a new limit or clears redo.
NoDuplicationNoLoss ==
    [][NoDup' /\ (InEngine \ InEngine' # {} => Removal)]_vars

\* A set_history_limit call is between its store of the new limit and its return.
LimitCallInFlight == \E t \in Threads : pc[t] \in {"shl_undo", "shl_redo"}

\* C21: in every interleaving, whenever no set_history_limit call is in flight,
\* neither stack is longer than the current history limit.
ConcurrentCapacity ==
    ~LimitCallInFlight => Len(undo) <= history_limit /\ Len(redo) <= history_limit

ConcurrentCapacityWitness ==
    /\ ~LimitCallInFlight
    /\ Len(undo) = history_limit /\ Len(redo) = history_limit
    /\ \E t, u \in Threads : pc[t] = "exec_push" /\ pc[u] = "undo_lock"

\* The threads at rest before their first call, and the records of the calls.
AtRest ==
    /\ redo_overridden \in BOOLEAN
    /\ hung = FALSE
    /\ pc = [t \in Threads |-> "idle"]
    /\ cmd = [t \in Threads |-> 0]
    /\ lim = [t \in Threads |-> 0]
    /\ todo = [t \in Threads |-> <<>>]
    /\ batch = [t \in Threads |-> <<>>]
    /\ undoLock = 0
    /\ redoLock = 0
    /\ lastSet = NeverSet
    /\ seen = [t \in Threads |-> NotSeen]
    /\ last = NoCall
    /\ pre = Engine
    /\ onlyExec = TRUE
    /\ undone = <<>>
    /\ roundTrip = NoRoundTrip
    /\ acct = NoAcct

\* A concurrent engine on which commands 1..m have been executed, m within the limit.
Prepared(m) ==
    /\ m <= history_limit
    /\ undo = [i \in 1..m |-> m - i + 1]
    /\ redo = <<>>
    /\ ctx = 2 ^ m - 1
    /\ nextId = m + 1

\* Threads that each call undo() and then redo() on a prepared engine.
UndoRedoInit ==
    /\ serial = FALSE
    /\ counting = FALSE
    /\ \E limit \in 1..MaxLimit, clear \in BOOLEAN : Concurrent_new(limit, clear)
    /\ \E m \in 0..MaxLimit : Prepared(m)
    /\ plan = [t \in Threads |-> <<"undo", "redo">>]
    /\ AtRest

UndoRedoNext ==
    \E t \in Threads :
        \/ C_undo(t) \/ C_undo_lock(t) \/ C_undo_callback(t)
        \/ C_undo_lock_redo(t) \/ C_undo_push(t)
        \/ C_redo(t) \/ C_redo_lock(t) \/ C_redo_callback(t)
        \/ C_redo_lock_undo(t) \/ C_redo_push(t)

UndoRedoSpec == UndoRedoInit /\ [][UndoRedoNext]_vars

\* C22: when every thread has returned from its undo() and its redo(), the undo
\* stack holds the commands it held at the start in the same order, the redo stack
\* is empty and the context value is what it was at the start.
ConcurrentUndoRedoConserves ==
    AllDone => /\ undo = Latest(nextId - 1)
               /\ redo = <<>>
               /\ ctx = 2 ^ (nextId - 1) - 1

ConcurrentUndoRedoConservesWitness ==
    /\ AllDone
    /\ undo = <<2, 1>> /\ redo = <<>> /\ ctx = 3

\* Threads that each call execute_command once on a fresh engine that clears redo.
ExecInit ==
    /\ serial = FALSE
    /\ counting = FALSE
    /\ \E limit \in 1..MaxLimit : Concurrent_new(limit, TRUE)
    /\ Prepared(0)
    /\ plan = [t \in Threads |-> <<"execute_command">>]
    /\ AtRest

ExecNext ==
    \E t \in Threads :
        \/ C_execute_command(t) \/ C_exec_callback(t) \/ C_exec_lock(t)
        \/ C_exec_push(t) \/ C_exec_clear(t)

ExecSpec == ExecInit /\ [][ExecNext]_vars

\* C23: when every thread has returned from its execute_command, the context holds
\* the effect of all the commands, the undo stack holds min(limit, number of
\* threads) distinct commands of theirs and the redo stack is empty.
ConcurrentExecutes ==
    AllDone => /\ ctx = 2 ^ NThreads - 1
               /\ Len(undo) = Min(history_limit, NThreads)
               /\ Range(undo) \subseteq 1..NThreads
               /\ Cardinality(Range(undo)) = Len(undo)
               /\ redo = <<>>

ConcurrentExecutesWitness ==
    /\ AllDone
    /\ history_limit = 1 /\ Len(undo) = 1 /\ ctx = 2 ^ NThreads - 1

\* C24: a thread that is inside the execute callback of execute_command holds
\* neither the undo lock nor the redo lock; it pushes and evicts holding the undo
\* lock, and it clears redo as the holder of the redo lock.
ExecuteCallbackOutsideLocks ==
    [][\A t \in Threads :
          /\ pc'[t] = "exec_cb" => undoLock' # t /\ redoLock' # t
          /\ pc'[t] = "exec_push" => undoLock' = t
          /\ (pc[t] = "exec_clear" /\ pc'[t] # pc[t]) => redoLock = 0 /\ redo' = <<>>]_vars

ExecuteCallbackOutsideLocksWitness ==
    \E t, u \in Threads :
        /\ pc[t] = "exec_cb" /\ ~HoldsUndo(t) /\ ~HoldsRedo(t)
        /\ pc[u] = "undo_push" /\ HoldsUndo(u) /\ HoldsRedo(u)

\* What an undo() or redo() that found a command leaves of the stack it pops from
\* and of the stack it pushes to, whatever the flag.
Moved(from, to) ==
    [from |-> Tail(from),
     to   |-> <<Head(from)>> \o SubSeq(to, 1, Min(Len(to), history_limit - 1))]

\* C25: an execute_command or batch_execute made after set_clear_redo_on_execute(b),
\* with no later set call, runs with the flag equal to b and leaves redo empty if
\* b is true and as it was if b is false; undo() and redo() move one command and
\* clear no stack whatever the flag.
PolicyReadAtExecute ==
    /\ (Returned({"execute_command", "batch_execute"}) /\ lastSet.made)
          => /\ pre.clear = lastSet.b
             /\ redo = IF lastSet.b THEN <<>> ELSE pre.redo
    /\ Returned({"undo"})
          => IF pre.undo = <<>> THEN undo = pre.undo /\ redo = pre.redo
             ELSE undo = Moved(pre.undo, pre.redo).from
                  /\ redo = Moved(pre.undo, pre.redo).to
    /\ Returned({"redo"})
          => IF pre.redo = <<>> THEN undo = pre.undo /\ redo = pre.redo
             ELSE redo = Moved(pre.redo, pre.undo).from
                  /\ undo = Moved(pre.redo, pre.undo).to

PolicyReadAtExecuteWitness ==
    /\ Returned({"batch_execute"}) /\ Len(last.args) = 1
    /\ lastSet = [made |-> TRUE, b |-> TRUE]
    /\ Len(pre.redo) = 1 /\ redo = <<>>

\* C26: no thread holds the write lock of the undo stack and the write lock of
\* the redo stack at the same time.
NoThreadHoldsBothLocks ==
    \A t \in Threads : ~(HoldsUndo(t) /\ HoldsRedo(t))

\* C27: a batch_execute in which a command's execute callback aborted leaves both
\* stacks as they were before the call.
BatchAbortKeepsHistory ==
    Aborted({"batch_execute"}) => undo = pre.undo /\ redo = pre.redo

\* The exclusive engine as it was when the latest call was made.
PreState ==
    [undo |-> pre.undo, redo |-> pre.redo, ctx |-> pre.ctx, limit |-> pre.limit,
     clear |-> pre.clear, aborted |-> FALSE, hung |-> FALSE, calls |-> <<>>]

\* The exclusive engine inside the latest call, a batch_execute, between its
\* j-th command and the next.
Simple_batch_between(j) ==
    Simple_batch_execute(PreState, SubSeq(last.args, 1, j), 0, redo_overridden)

\* C28: with clear-redo enabled, between two commands of a batch_execute the redo
\* stack still holds what it held before the call, and a batch of at least one
\* command that has returned has left it empty.
BatchClearsRedoAtEnd ==
    /\ \A t \in Threads :
          (serial /\ pre.clear /\ pc[t] \in {"batch_cb", "batch_push"}) => redo = pre.redo
    /\ (serial /\ engine = "simple" /\ last.op = "batch_execute" /\ pre.clear)
          => \A j \in 1..(Len(last.calls) - 1) : Simple_batch_between(j).redo = pre.redo
    /\ (Returned({"batch_execute"}) /\ pre.clear /\ last.args # <<>>) => redo = <<>>

\* C29: after a call of the concurrent engine in which a command callback
\* aborted, neither stack is longer than the history limit and no command is in
\* both stacks or twice in one.
AbortSafety ==
    (Aborted({"execute_command", "batch_execute", "undo", "redo"})
        /\ engine = "concurrent")
        => /\ Len(undo) <= history_limit
           /\ Len(redo) <= history_limit
           /\ NoDup

AbortSafetyWitness ==
    /\ Aborted({"batch_execute"}) /\ engine = "concurrent"
    /\ Len(last.calls) = 2
    /\ history_limit = 1 /\ Len(pre.undo) = 1
    /\ undo = <<last.args[1]>>

Max(a, b) == IF a >= b THEN a ELSE b

\* Thread 1 calls set_history_limit once on an engine whose undo stack is full
\* while the other threads push: each makes up to MaxRace calls of
\* execute_command, undo and redo.
LimitRaceInit ==
    /\ serial = FALSE
    /\ counting = FALSE
    /\ \E limit \in 1..MaxLimit, clear \in BOOLEAN : Concurrent_new(limit, clear)
    /\ Prepared(history_limit)
    /\ plan = [t \in Threads |-> IF t = 1 THEN <<"set_history_limit">>
                                  ELSE [i \in 1..MaxRace |-> "push"]]
    /\ AtRest

LimitRaceNext ==
    \E t \in Threads :
        \/ C_execute_command(t) \/ C_exec_callback(t) \/ C_exec_lock(t)
        \/ C_exec_push(t) \/ C_exec_clear(t)
        \/ C_undo(t) \/ C_undo_lock(t) \/ C_undo_callback(t)
        \/ C_undo_lock_redo(t) \/ C_undo_push(t)
        \/ C_redo(t) \/ C_redo_lock(t) \/ C_redo_callback(t)
        \/ C_redo_lock_undo(t) \/ C_redo_push(t)
        \/ C_set_history_limit(t) \/ C_shl_trim_undo(t) \/ C_shl_trim_redo(t)

LimitRaceSpec == LimitRaceInit /\ [][LimitRaceNext]_vars

\* C30: while one set_history_limit call changes the limit from pre.limit to
\* history_limit and other threads push, each stack holds at most one entry more
\* than the larger of the two limits, and when the call returns, and from then
\* on, each stack is within the new limit.
LimitRaceBounded ==
    /\ Len(undo) <= Max(pre.limit, history_limit) + 1
    /\ Len(redo) <= Max(pre.limit, history_limit) + 1
    /\ (plan[1] = <<>> /\ pc[1] = "idle")
          => Len(undo) <= history_limit /\ Len(redo) <= history_limit

LimitRaceBoundedWitness ==
    /\ pc[1] = "shl_undo" /\ history_limit < pre.limit
    /\ \E t \in Threads : pc[t] = "exec_push" /\ lim[t] = pre.limit
                          /\ Len(undo) = pre.limit

\* Thread 1 calls undo() twice on a prepared engine while each other thread calls
\* undo_history() or redo_history().
ObserveInit ==
    /\ serial = FALSE
    /\ counting = FALSE
    /\ \E limit \in 1..MaxLimit, clear \in BOOLEAN : Concurrent_new(limit, clear)
    /\ \E m \in 0..MaxLimit : Prepared(m)
    /\ plan \in {p \in [Threads -> {<<"undo", "undo">>, <<"undo_history">>,
                                   <<"redo_history">>}] :
                    \A t \in Threads : p[t] = <<"undo", "undo">> <=> t = 1}
    /\ AtRest

ObserveNext ==
    \E t \in Threads :
        \/ C_undo(t) \/ C_undo_lock(t) \/ C_undo_callback(t)
        \/ C_undo_lock_redo(t) \/ C_undo_push(t)
        \/ C_undo_history(t) \/ C_uh_read(t)
        \/ C_redo_history(t) \/ C_rh_read(t)

ObserveSpec == ObserveInit /\ [][ObserveNext]_vars

\* C31: a snapshot returned by undo_history() or redo_history() lists no command
\* that an undo() held between its pop and its push when the snapshot was taken;
\* the witness is a redo_history() that returned such a snapshot.
SnapshotMissesInFlight ==
    \A u \in Threads :
        \A c \in seen[u].inflight : c \notin Range(seen[u].result.items)

SnapshotMissesInFlightWitness ==
    \E u \in Threads :
        /\ pc[u] = "idle" /\ plan[u] = <<>>
        /\ seen[u].inflight = {1}
        /\ seen[u].result = [some |-> TRUE, items |-> <<2>>]
        /\ pc[1] = "undo_cb" /\ cmd[1] = 1
        /\ undo = <<>> /\ redo = <<2>>

\* C32: on the exclusive engine no call is left inside the eviction loop of
\* push_undo or push_redo: every call whose callback returns comes back.
PushTerminates ==
    engine = "simple" => ~hung

====
